---- MODULE Spec2Model ----
(***************************************************************************)
(* The users service of project-microservice (users.service.ts and         *)
(* user.resolver.ts): two-phase registration (register + activateUser),    *)
(* password login, and the guarded getLoggedInUser / logOutUser queries.   *)
(*                                                                         *)
(* Every resolver call is a request.  register and activateUser are split  *)
(* at the awaits that reach the user store, so that concurrent requests    *)
(* interleave between a lookup and the create that follows it.             *)
(*                                                                         *)
(* The service file holds the class twice; the first copy is the complete  *)
(* one (Login, getLoggedInUser and Logout are written out) and the one     *)
(* the resolver's calls fit.  It is the copy modelled here.                *)
(*                                                                         *)
(* A finished request keeps its dto and its result in its slot until       *)
(* Respond takes the response away, and nothing else moves meanwhile: a    *)
(* slot at "done" shows the store and the clock its last step saw.         *)
(***************************************************************************)
EXTENDS Integers, FiniteSets, Sequences, TLC

(***************************************************************************)
(* Bounds of the model.                                                    *)
(***************************************************************************)
MaxTime == 6          \* the clock runs 0..MaxTime (minutes)
LastIssue == 0        \* register is called at clock <= LastIssue
RandomGrid == 10000   \* createActivationToken alone: Math.random() in steps of 1/RandomGrid

Slots == {1, 2}                        \* requests in flight at one time
MaxIssued == Cardinality(Slots)        \* register succeeds at most this often
Randoms == {<<0, 2>>, <<1, 2>>}        \* Math.random() returns n/d: 0 and 1/2
Names == {"", "Ann"}
Emails == {"ann@x.com", "bob@x.com"}
Phones == {5551234, 5555678}
Passwords == {"pw123456", "hunter22"}
Salts == {"saltA"}                     \* salts bcrypt may draw

(***************************************************************************)
(* Program constants.                                                      *)
(***************************************************************************)
ActivationTTL == 5    \* expiresIn: '5m'
SaltRounds == 10      \* bcrypt.hash(password, 10)
CodeBase == 1000      \* Math.floor(1000 + Math.random() * 9000)
CodeSpan == 9000

JWT_SECRET == "JWT_SECRET"             \* configService.get('JWT_SECRET')
ForeignSecret == "not-the-secret"      \* any key other than JWT_SECRET

null == [js |-> "null"]
undefined == [js |-> "undefined"]

(***************************************************************************)
(* bcrypt.  A hash carries its cost and salt next to the digest; compare   *)
(* recomputes the digest of the candidate under the hash's cost and salt.  *)
(***************************************************************************)
bcryptDigest(cost, salt, password) == <<cost, salt, password>>

bcryptHash(password, cost, salt) ==
    [cost |-> cost, salt |-> salt, digest |-> bcryptDigest(cost, salt, password)]

bcryptCompare(password, hashPassword) ==
    bcryptDigest(hashPassword.cost, hashPassword.salt, password) = hashPassword.digest

\* mutant: any password passes
comparePassword_Any(password, hashPassword) == TRUE

comparePassword(password, hashPassword) == bcryptCompare(password, hashPassword)

(***************************************************************************)
(* jsonwebtoken.  sign stamps iat and exp into the payload and appends a   *)
(* MAC of the payload under the secret.  verify rejects a malformed token  *)
(* and a bad signature (JsonWebTokenError) before it looks at the expiry   *)
(* (TokenExpiredError), and returns the payload otherwise.                 *)
(***************************************************************************)
Mac(secret, payload) == <<secret, payload>>

jwtSign(claims, secret, ttl, now) ==
    LET payload == [claims |-> claims, iat |-> now, exp |-> now + ttl]
    IN  [payload |-> payload, signature |-> Mac(secret, payload)]

Malformed == [malformed |-> TRUE]

JsonWebTokenError == [kind |-> "raised", exception |-> "JsonWebTokenError"]
TokenExpiredError == [kind |-> "raised", exception |-> "TokenExpiredError"]

IsWellFormed(token) == DOMAIN token = {"payload", "signature"}

\* mutant: the expiry is not looked at
jwtVerify_IgnoresExpiry(token, secret, now) ==
    IF ~IsWellFormed(token) THEN JsonWebTokenError
    ELSE IF token.signature # Mac(secret, token.payload) THEN JsonWebTokenError
    ELSE [kind |-> "ok", payload |-> token.payload]

jwtVerify(token, secret, now) ==
    IF ~IsWellFormed(token) THEN JsonWebTokenError
    ELSE IF token.signature # Mac(secret, token.payload) THEN JsonWebTokenError
    ELSE IF now >= token.payload.exp THEN TokenExpiredError
    ELSE [kind |-> "ok", payload |-> token.payload]

(***************************************************************************)
(* createActivationToken.  random is the fraction <<n, d>> Math.random()   *)
(* returned; the code is Math.floor(1000 + n/d * 9000).toString().          *)
(***************************************************************************)
\* mutant: Math.ceil in place of Math.floor
ActivationCodeOf_Ceil(random) ==
    ToString((CodeBase * random[2] + random[1] * CodeSpan + random[2] - 1) \div random[2])

ActivationCodeOf(random) ==
    ToString((CodeBase * random[2] + random[1] * CodeSpan) \div random[2])

Codes == {ActivationCodeOf(k) : k \in Randoms}

\* mutant: the code returned for the mail is drawn apart from the signed one
createActivationToken_SecondDraw(user, random, now) ==
    LET signedCode == ActivationCodeOf(random)
        mailedCode == ActivationCodeOf(CHOOSE k \in Randoms : k # random)
        token == jwtSign([user |-> user, activationCode |-> signedCode],
                         JWT_SECRET, ActivationTTL, now)
    IN  [token |-> token, activationCode |-> mailedCode]

createActivationToken(user, random, now) ==
    LET activationCode == ActivationCodeOf(random)
        token == jwtSign([user |-> user, activationCode |-> activationCode],
                         JWT_SECRET, ActivationTTL, now)
    IN  [token |-> token, activationCode |-> activationCode]


(***************************************************************************)
(* Exceptions and results.  A request ends either by raising (the promise  *)
(* rejects) or by returning a value.                                       *)
(***************************************************************************)
Raised(exception, message) ==
    [kind |-> "raised", exception |-> exception, message |-> message]

Returned(value) == [kind |-> "returned", value |-> value]

BadRequestException(message) == Raised("BadRequestException", message)

PrismaUniqueConstraintError(field) ==
    Raised("PrismaClientKnownRequestError", field)

MailerError == Raised("MailerError", "sendMail failed")

(***************************************************************************)
(* The user store (prisma.user).                                           *)
(***************************************************************************)
findUniqueByEmail(store, email) ==
    IF \E u \in store : u.email = email
    THEN CHOOSE u \in store : u.email = email
    ELSE null

\* mutant: the phone lookup finds nothing
findUniqueByPhone_Miss(store, phone_number) == null

findUniqueByPhone(store, phone_number) ==
    IF \E u \in store : u.phone_number = phone_number
    THEN CHOOSE u \in store : u.phone_number = phone_number
    ELSE null

findMany(store) == store

\* mutant: no unique index on email and phone_number
prismaCreate_NoUniqueIndex(store, data) ==
    Returned([id |-> Cardinality(store) + 1,
              name |-> data.name,
              email |-> data.email,
              password |-> data.password,
              phone_number |-> data.phone_number])

\* create: the row with a fresh id, or the unique index that rejects it
prismaCreate(store, data) ==
    IF \E u \in store : u.email = data.email
    THEN PrismaUniqueConstraintError("email")
    ELSE IF \E u \in store : u.phone_number = data.phone_number
    THEN PrismaUniqueConstraintError("phone_number")
    ELSE Returned([id |-> Cardinality(store) + 1,
                   name |-> data.name,
                   email |-> data.email,
                   password |-> data.password,
                   phone_number |-> data.phone_number])

(***************************************************************************)
(* State.                                                                  *)
(***************************************************************************)
VARIABLES
    users,     \* the rows of prisma.user
    clock,     \* the time jsonwebtoken reads
    issued,    \* what successful registrations handed out: the response's
               \* activation_token and the mail the notifier was given
    req,       \* the requests in flight, one per slot
    carrier,   \* the access and refresh token the client carries
    activated, \* the identities successful activateUser calls have created
    listed     \* the client's last getUsers answer, and how many
               \* identities had been activated when it arrived

vars == <<users, clock, issued, req, carrier, activated, listed>>

NoCredentials == [accessToken |-> undefined, refreshToken |-> undefined]

\* ctx: the request object the guard and the guarded handlers share
\* queried: the request has called prisma.user.findUnique;
\* notified: sendMail was called; delivered: it resolved
Idle == [op |-> "none", pc |-> "idle", dto |-> undefined, local |-> undefined,
         queried |-> FALSE, notified |-> FALSE, delivered |-> FALSE,
         result |-> undefined, ctx |-> undefined]

\* const { f } = value
Field(value, f) == IF f \in DOMAIN value THEN value[f] ELSE undefined

Busy(r) == req[r].pc \notin {"idle", "done"}

\* a new request takes the first free slot (0: none is free)
FreeSlot ==
    IF \E s \in Slots : req[s].pc = "idle"
    THEN CHOOSE s \in Slots : req[s].pc = "idle" /\ \A t \in Slots : req[t].pc = "idle" => s <= t
    ELSE 0

\* a response waits for its client
Pending == \E s \in Slots : req[s].pc = "done"

Init ==
    /\ users = {}
    /\ clock = 0
    /\ issued = {}
    /\ req = [r \in Slots |-> Idle]
    /\ carrier = NoCredentials
    /\ activated = {}
    /\ listed = undefined


Finish(r, result) ==
    req' = [req EXCEPT ![r].pc = "done", ![r].local = undefined, ![r].result = result]

\* registrations that may still hand out a token
RegistrationsInFlight == {s \in Slots : req[s].op = "register" /\ Busy(s)}

(***************************************************************************)
(* register.  UserResolver.register rejects a dto with an empty name,      *)
(* email or password; UsersService.register then looks the email up.       *)
(***************************************************************************)
RegisterDtos ==
    [name : Names, email : Emails, password : Passwords, phone_number : Phones]

\* !object.property, for a string property: absent or empty
Not(object, property) ==
    property \notin DOMAIN object \/ object[property] = ""

\* !registerDto.name || !registerDto.email || !registerDto.password
MissingField(registerDto) ==
    Not(registerDto, "name") \/ Not(registerDto, "email") \/ Not(registerDto, "password")

\* a dto with one of the three left out or left empty
Without(object, property) ==
    [p \in DOMAIN object \ {property} |-> object[p]]

IncompleteDtos ==
    {Without(d, f) : d \in RegisterDtos, f \in {"name", "email", "password"}}
      \cup {[d EXCEPT ![f] = ""] : d \in RegisterDtos, f \in {"name", "email", "password"}}

\* const { activation_token, message } = await this.userService.register(...)
ResolverRegister(outcome) ==
    IF outcome.kind = "raised" THEN outcome
    ELSE Returned([activation_token |-> Field(outcome.value, "activation_token"),
                   message |-> Field(outcome.value, "message")])

\* mutant: the email is looked up before the fields are checked
RegisterBegin_LookupFirst(r, registerDto) ==
    /\ ~Pending
    /\ r = FreeSlot
    /\ clock <= LastIssue
    /\ Cardinality(issued) + Cardinality(RegistrationsInFlight) < MaxIssued
    /\ IF ~Not(registerDto, "email")
          /\ findUniqueByEmail(users, registerDto.email) # null
       THEN req' = [req EXCEPT ![r] =
                [Idle EXCEPT !.op = "register", !.pc = "done", !.dto = registerDto,
                             !.queried = TRUE,
                             !.result = BadRequestException("Email already exist")]]
       ELSE IF MissingField(registerDto)
       THEN req' = [req EXCEPT ![r] =
                [Idle EXCEPT !.op = "register", !.pc = "done", !.dto = registerDto,
                             !.queried = ~Not(registerDto, "email"),
                             !.result = BadRequestException("Please fill the all fields")]]
       ELSE req' = [req EXCEPT ![r] =
                [Idle EXCEPT !.op = "register", !.pc = "findPhone", !.dto = registerDto,
                             !.queried = TRUE]]
    /\ UNCHANGED <<users, clock, issued, carrier, activated, listed>>

RegisterBegin(r, registerDto) ==
    /\ ~Pending
    /\ r = FreeSlot
    /\ clock <= LastIssue
    /\ Cardinality(issued) + Cardinality(RegistrationsInFlight) < MaxIssued
    /\ IF MissingField(registerDto)
       THEN req' = [req EXCEPT ![r] =
                [Idle EXCEPT !.op = "register", !.pc = "done", !.dto = registerDto,
                             !.result = BadRequestException("Please fill the all fields")]]
       ELSE IF findUniqueByEmail(users, registerDto.email) # null
       THEN req' = [req EXCEPT ![r] =
                [Idle EXCEPT !.op = "register", !.pc = "done", !.dto = registerDto,
                             !.queried = TRUE,
                             !.result = BadRequestException("Email already exist")]]
       ELSE req' = [req EXCEPT ![r] =
                [Idle EXCEPT !.op = "register", !.pc = "findPhone", !.dto = registerDto,
                             !.queried = TRUE]]
    /\ UNCHANGED <<users, clock, issued, carrier, activated, listed>>

RegisterFindPhone(r) ==
    /\ ~Pending
    /\ req[r].op = "register"
    /\ req[r].pc = "findPhone"
    /\ IF findUniqueByPhone(users, req[r].dto.phone_number) # null
       THEN Finish(r, BadRequestException("Phone number already exist"))
       ELSE req' = [req EXCEPT ![r].pc = "hash"]
    /\ UNCHANGED <<users, clock, issued, carrier, activated, listed>>

\* mutant: register writes the user to the store itself
RegisterSend_Persists(r, salt, random, mailSent) ==
    /\ ~Pending
    /\ req[r].op = "register"
    /\ req[r].pc = "hash"
    /\ LET dto == req[r].dto
           hashedPassword == bcryptHash(dto.password, SaltRounds, salt)
           user == [name |-> dto.name, email |-> dto.email,
                    password |-> hashedPassword, phone_number |-> dto.phone_number]
           activationToken == createActivationToken(user, random, clock)
           mail == [email |-> dto.email, name |-> dto.name,
                    activationCode |-> activationToken.activationCode]
       IN  /\ req' = [req EXCEPT ![r].pc = "done", ![r].local = undefined,
                                 ![r].notified = TRUE,
                                 ![r].delivered = mailSent,
                                 ![r].result = IF mailSent
                                     THEN ResolverRegister(Returned(
                                          [activation_token |-> activationToken.token,
                                           message |-> "Otp sended to email !",
                                           response |-> "res"]))
                                     ELSE MailerError]
           /\ issued' = IF mailSent
                        THEN issued \cup {[activation_token |-> activationToken.token,
                                           mail |-> mail]}
                        ELSE issued
           /\ users' = users \cup {[id |-> Cardinality(users) + 1, name |-> user.name,
                                    email |-> user.email, password |-> user.password,
                                    phone_number |-> user.phone_number]}
    /\ UNCHANGED <<clock, carrier, activated, listed>>

\* mutant: the rejection of sendMail is swallowed and the token returned
RegisterSend_SwallowsMailFailure(r, salt, random, mailSent) ==
    /\ ~Pending
    /\ req[r].op = "register"
    /\ req[r].pc = "hash"
    /\ LET dto == req[r].dto
           hashedPassword == bcryptHash(dto.password, SaltRounds, salt)
           user == [name |-> dto.name, email |-> dto.email,
                    password |-> hashedPassword, phone_number |-> dto.phone_number]
           activationToken == createActivationToken(user, random, clock)
           mail == [email |-> dto.email, name |-> dto.name,
                    activationCode |-> activationToken.activationCode]
       IN  /\ req' = [req EXCEPT ![r].pc = "done", ![r].local = undefined,
                                 ![r].notified = TRUE, ![r].delivered = mailSent,
                                 ![r].result = ResolverRegister(Returned(
                                     [activation_token |-> activationToken.token,
                                      message |-> "Otp sended to email !",
                                      response |-> "res"]))]
           /\ issued' = issued \cup
                  {[activation_token |-> activationToken.token, mail |-> mail]}
    /\ UNCHANGED <<users, clock, carrier, activated, listed>>

\* bcrypt.hash, createActivationToken, emailService.sendMail, return
RegisterSend(r, salt, random, mailSent) ==
    /\ ~Pending
    /\ req[r].op = "register"
    /\ req[r].pc = "hash"
    /\ LET dto == req[r].dto
           hashedPassword == bcryptHash(dto.password, SaltRounds, salt)
           user == [name |-> dto.name, email |-> dto.email,
                    password |-> hashedPassword, phone_number |-> dto.phone_number]
           activationToken == createActivationToken(user, random, clock)
           mail == [email |-> dto.email, name |-> dto.name,
                    activationCode |-> activationToken.activationCode]
       IN  IF mailSent
           THEN /\ req' = [req EXCEPT ![r].pc = "done", ![r].local = undefined,
                                      ![r].notified = TRUE, ![r].delivered = TRUE,
                                      ![r].result = ResolverRegister(Returned(
                                          [activation_token |-> activationToken.token,
                                           message |-> "Otp sended to email !",
                                           response |-> "res"]))]
                /\ issued' = issued \cup
                       {[activation_token |-> activationToken.token, mail |-> mail]}
           ELSE /\ req' = [req EXCEPT ![r].pc = "done", ![r].local = undefined,
                                      ![r].notified = TRUE,
                                      ![r].result = MailerError]
                /\ issued' = issued
    /\ UNCHANGED <<users, clock, carrier, activated, listed>>

(***************************************************************************)
(* activateUser.  What a client can present: a token some registration     *)
(* returned, such a token altered, or a string that is no token.           *)
(***************************************************************************)
IssuedTokens == {i.activation_token : i \in issued}

AlterCode(token, code) ==
    [token EXCEPT !.payload.claims.activationCode = code]

ExtendExpiry(token) ==
    [token EXCEPT !.payload.exp = MaxTime + 1]

Resign(token, secret) ==
    [token EXCEPT !.signature = Mac(secret, token.payload)]

PresentableTokens ==
    IssuedTokens
      \cup {AlterCode(t, c) : t \in IssuedTokens, c \in Codes}
      \cup {ExtendExpiry(t) : t \in IssuedTokens}
      \cup {Resign(t, ForeignSecret) : t \in IssuedTokens}
      \cup {Malformed}

ActivationDtos == [activationToken : PresentableTokens, activationCode : Codes]

\* const { user } = await this.userService.activateUser(...)
ResolverActivate(outcome) ==
    IF outcome.kind = "raised" THEN outcome
    ELSE Returned([user |-> Field(outcome.value, "user")])

\* mutant: the code is compared with the unverified payload first
ActivateBegin_CodeFirst(r, activationDto) ==
    /\ ~Pending
    /\ r = FreeSlot
    /\ LET newUser == jwtVerify(activationDto.activationToken, JWT_SECRET, clock)
           entered == [Idle EXCEPT !.op = "activateUser", !.dto = activationDto]
       IN  IF /\ IsWellFormed(activationDto.activationToken)
              /\ activationDto.activationToken.payload.claims.activationCode
                     # activationDto.activationCode
           THEN req' = [req EXCEPT ![r] =
                    [entered EXCEPT !.pc = "done",
                        !.result = ResolverActivate(
                            BadRequestException("Invalid activation code"))]]
           ELSE IF newUser.kind = "raised"
           THEN req' = [req EXCEPT ![r] =
                    [entered EXCEPT !.pc = "done", !.result = ResolverActivate(newUser)]]
           ELSE IF newUser.payload.claims.activationCode # activationDto.activationCode
           THEN req' = [req EXCEPT ![r] =
                    [entered EXCEPT !.pc = "done",
                        !.result = ResolverActivate(
                            BadRequestException("Invalid activation code"))]]
           ELSE IF findUniqueByEmail(users, newUser.payload.claims.user.email) # null
           THEN req' = [req EXCEPT ![r] =
                    [entered EXCEPT !.pc = "done", !.queried = TRUE,
                        !.result = ResolverActivate(Returned(
                            [exception |-> "BadRequestException",
                             message |-> "User already exist with this email"]))]]
           ELSE req' = [req EXCEPT ![r] =
                    [entered EXCEPT !.pc = "create", !.queried = TRUE,
                                    !.local = newUser.payload.claims.user]]
    /\ UNCHANGED <<users, clock, issued, carrier, activated, listed>>

ActivateBegin(r, activationDto) ==
    /\ ~Pending
    /\ r = FreeSlot
    /\ LET newUser == jwtVerify(activationDto.activationToken, JWT_SECRET, clock)
           entered == [Idle EXCEPT !.op = "activateUser", !.dto = activationDto]
       IN  IF newUser.kind = "raised"
           THEN req' = [req EXCEPT ![r] =
                    [entered EXCEPT !.pc = "done", !.result = ResolverActivate(newUser)]]
           ELSE IF newUser.payload.claims.activationCode # activationDto.activationCode
           THEN req' = [req EXCEPT ![r] =
                    [entered EXCEPT !.pc = "done",
                        !.result = ResolverActivate(
                            BadRequestException("Invalid activation code"))]]
           ELSE IF findUniqueByEmail(users, newUser.payload.claims.user.email) # null
           THEN req' = [req EXCEPT ![r] =
                    [entered EXCEPT !.pc = "done", !.queried = TRUE,
                        !.result = ResolverActivate(Returned(
                            [exception |-> "BadRequestException",
                             message |-> "User already exist with this email"]))]]
           ELSE req' = [req EXCEPT ![r] =
                    [entered EXCEPT !.pc = "create", !.queried = TRUE,
                                    !.local = newUser.payload.claims.user]]
    /\ UNCHANGED <<users, clock, issued, carrier, activated, listed>>

ActivateCreate(r) ==
    /\ ~Pending
    /\ req[r].op = "activateUser"
    /\ req[r].pc = "create"
    /\ LET created == prismaCreate(users, req[r].local)
       IN  IF created.kind = "raised"
           THEN /\ Finish(r, ResolverActivate(created))
                /\ users' = users
                /\ activated' = activated
           ELSE /\ Finish(r, ResolverActivate(Returned(
                        [user |-> created.value, response |-> "res"])))
                /\ users' = users \cup {created.value}
                /\ activated' = activated \cup {created.value}
    /\ UNCHANGED <<clock, issued, carrier, listed>>

(***************************************************************************)
(* Login.  TokenSender.sendToken signs the pair; the access and the        *)
(* refresh token differ in secret and lifetime.                            *)
(***************************************************************************)
ACCESS_TOKEN_SECRET == "ACCESS_TOKEN_SECRET"
REFRESH_TOKEN_SECRET == "REFRESH_TOKEN_SECRET"
AccessTTL == 1
RefreshTTL == 3

sendToken(user, now) ==
    [user |-> user,
     accessToken |-> jwtSign([id |-> user.id], ACCESS_TOKEN_SECRET, AccessTTL, now),
     refreshToken |-> jwtSign([id |-> user.id], REFRESH_TOKEN_SECRET, RefreshTTL, now)]

LoginDtos == [email : Emails, password : Passwords]

\* mutant: an unknown email is told apart from a wrong password
Login_TellsUnknownEmail(store, loginDto, now) ==
    LET user == findUniqueByEmail(store, loginDto.email)
    IN  IF user # null /\ comparePassword(loginDto.password, user.password)
        THEN sendToken(user, now)
        ELSE [user |-> null,
              accessToken |-> null,
              refreshToken |-> null,
              error |-> [message |-> IF user = null THEN "Unknown email"
                                     ELSE "Invalid email or password"]]

Login(store, loginDto, now) ==
    LET user == findUniqueByEmail(store, loginDto.email)
    IN  IF user # null /\ comparePassword(loginDto.password, user.password)
        THEN sendToken(user, now)
        ELSE [user |-> null,
              accessToken |-> null,
              refreshToken |-> null,
              error |-> [message |-> "Invalid email or password"]]

LoginRequest(r, loginDto) ==
    /\ ~Pending
    /\ r = FreeSlot
    /\ req' = [req EXCEPT ![r] =
           [Idle EXCEPT !.op = "Login", !.pc = "done", !.dto = loginDto,
                        !.result = Returned(Login(users, loginDto, clock))]]
    /\ UNCHANGED <<users, clock, issued, carrier, activated, listed>>

(***************************************************************************)
(* getUsers.                                                               *)
(***************************************************************************)
\* mutant: findMany({ take: 1 })
getUsers_TakeOne(store) ==
    IF store = {} THEN {} ELSE {CHOOSE u \in store : \A v \in store : u.id <= v.id}

getUsers(store) == findMany(store)

GetUsersRequest(r) ==
    /\ ~Pending
    /\ r = FreeSlot
    /\ req' = [req EXCEPT ![r] =
           [Idle EXCEPT !.op = "getUsers", !.pc = "done",
                        !.result = Returned(getUsers(users))]]
    /\ UNCHANGED <<users, clock, issued, carrier, activated, listed>>

(***************************************************************************)
(* The guarded queries.  AuthGuard admits a request whose access token     *)
(* verifies, mints a new access token from a valid refresh token when the  *)
(* access token has only expired, and refuses everything else.  It sets    *)
(* user, accessToken and refreshToken on the request object, which is a    *)
(* JavaScript object: a property is there once it was assigned.            *)
(***************************************************************************)
Unauthenticated == Raised("UnauthorizedException", "Unauthenticated")

SetProperty(object, property, value) ==
    [p \in DOMAIN object \cup {property} |->
        IF p = property THEN value ELSE object[p]]

Admit(id, accessToken, refreshToken, attach) ==
    [kind |-> "ok",
     req |-> [user |-> [id |-> id],
              accessToken |-> accessToken,
              refreshToken |-> refreshToken],
     attach |-> attach]

\* mutant: an expired access token is refused without looking at the refresh token
AuthGuard_NeverRefreshes(credentials, now) ==
    IF credentials.accessToken = undefined THEN Unauthenticated
    ELSE LET access == jwtVerify(credentials.accessToken, ACCESS_TOKEN_SECRET, now)
         IN  IF access.kind = "ok"
             THEN Admit(access.payload.claims.id, credentials.accessToken,
                        credentials.refreshToken, undefined)
             ELSE Unauthenticated

\* mutant: a token that fails verification in any way is treated as expired
AuthGuard_RefreshesOnAnyFailure(credentials, now) ==
    IF credentials.accessToken = undefined THEN Unauthenticated
    ELSE LET access == jwtVerify(credentials.accessToken, ACCESS_TOKEN_SECRET, now)
         IN  IF access.kind = "ok"
             THEN Admit(access.payload.claims.id, credentials.accessToken,
                        credentials.refreshToken, undefined)
             ELSE IF credentials.refreshToken = undefined THEN Unauthenticated
                  ELSE LET refresh == jwtVerify(credentials.refreshToken,
                                                REFRESH_TOKEN_SECRET, now)
                       IN  IF refresh.kind = "ok"
                           THEN LET minted == jwtSign([id |-> refresh.payload.claims.id],
                                                      ACCESS_TOKEN_SECRET, AccessTTL, now)
                                IN  Admit(refresh.payload.claims.id, minted,
                                          credentials.refreshToken, minted)
                           ELSE Unauthenticated

AuthGuard(credentials, now) ==
    IF credentials.accessToken = undefined THEN Unauthenticated
    ELSE LET access == jwtVerify(credentials.accessToken, ACCESS_TOKEN_SECRET, now)
         IN  IF access.kind = "ok"
             THEN Admit(access.payload.claims.id, credentials.accessToken,
                        credentials.refreshToken, undefined)
             ELSE IF access = TokenExpiredError
             THEN IF credentials.refreshToken = undefined THEN Unauthenticated
                  ELSE LET refresh == jwtVerify(credentials.refreshToken,
                                                REFRESH_TOKEN_SECRET, now)
                       IN  IF refresh.kind = "ok"
                           THEN LET minted == jwtSign([id |-> refresh.payload.claims.id],
                                                      ACCESS_TOKEN_SECRET, AccessTTL, now)
                                IN  Admit(refresh.payload.claims.id, minted,
                                          credentials.refreshToken, minted)
                           ELSE Unauthenticated
             ELSE Unauthenticated

getLoggedInUser(request) ==
    [accessToken |-> Field(request, "accessToken"),
     refreshToken |-> Field(request, "refreshToken"),
     user |-> Field(request, "user")]

Logout(request) ==
    SetProperty(SetProperty(SetProperty(request, "user", null),
                            "accesstoken", null),
                "refreshtoken", null)

GuardedOps == {"getLoggedInUser", "logOutUser"}

\* an access token that was altered, signed by someone else, or is no token
TamperedAccess(token) ==
    IF token = undefined THEN {Malformed}
    ELSE {Malformed, Resign(token, ForeignSecret), ExtendExpiry(token)}

\* what the client can put on a guarded request: the pair it carries,
\* nothing, or the pair with the access token tampered with
Credentials ==
    {carrier, NoCredentials}
      \cup {[carrier EXCEPT !.accessToken = t] : t \in TamperedAccess(carrier.accessToken)}

GuardedRequest(r, op, credentials) ==
    /\ ~Pending
    /\ r = FreeSlot
    /\ LET guard == AuthGuard(credentials, clock)
           entered == [Idle EXCEPT !.op = op, !.pc = "done", !.dto = credentials]
       IN  IF guard.kind = "raised"
           THEN req' = [req EXCEPT ![r] = [entered EXCEPT !.result = guard]]
           ELSE IF op = "getLoggedInUser"
           THEN req' = [req EXCEPT ![r] =
                    [entered EXCEPT !.ctx = guard.req, !.local = guard.attach,
                                    !.result = Returned(getLoggedInUser(guard.req))]]
           ELSE req' = [req EXCEPT ![r] =
                    [entered EXCEPT !.ctx = Logout(guard.req), !.local = guard.attach,
                                    !.result = Returned(
                                        [message |-> "Logged out successfully"])]]
    /\ UNCHANGED <<users, clock, issued, carrier, activated, listed>>

(***************************************************************************)
(* The response leaves the server and the request ends.  The client keeps  *)
(* the pair a login returned, the access token the guard attached, and the *)
(* list getUsers answered.                                                 *)
(***************************************************************************)
Respond(r) ==
    /\ req[r].pc = "done"
    /\ req' = [req EXCEPT ![r] = Idle]
    /\ carrier' =
         IF req[r].op = "Login" /\ req[r].result.value.user # null
         THEN [accessToken |-> req[r].result.value.accessToken,
               refreshToken |-> req[r].result.value.refreshToken]
         ELSE IF req[r].op \in GuardedOps /\ req[r].result.kind = "returned"
                 /\ req[r].local # undefined
         THEN [carrier EXCEPT !.accessToken = req[r].local]
         ELSE carrier
    /\ listed' =
         IF req[r].op = "getUsers"
         THEN [users |-> req[r].result.value, activations |-> Cardinality(activated)]
         ELSE listed
    /\ UNCHANGED <<users, clock, issued, activated>>

\* requests are short against the clock's minute: it moves between them
Tick ==
    /\ ~Pending
    /\ \A s \in Slots : ~Busy(s)
    /\ clock < MaxTime
    /\ clock' = clock + 1
    /\ UNCHANGED <<users, issued, req, carrier, activated, listed>>

(***************************************************************************)
(* Spec: registrations and activations, interleaved, with every token a    *)
(* client can present.                                                     *)
(***************************************************************************)
Next ==
    \/ \E r \in Slots, registerDto \in RegisterDtos : RegisterBegin(r, registerDto)
    \/ \E r \in Slots : RegisterFindPhone(r)
    \/ \E r \in Slots, salt \in Salts, random \in Randoms, mailSent \in BOOLEAN :
           RegisterSend(r, salt, random, mailSent)
    \/ \E r \in Slots, activationDto \in ActivationDtos : ActivateBegin(r, activationDto)
    \/ \E r \in Slots : ActivateCreate(r)
    \/ \E r \in Slots : Respond(r)
    \/ Tick

Spec == Init /\ [][Next]_vars

(***************************************************************************)
(* SpecSession: every operation of the resolver, one request at a time,    *)
(* with the tokens as they were issued.                                    *)
(***************************************************************************)
FirstSlot == CHOOSE s \in Slots : \A t \in Slots : s <= t
FirstRandom == CHOOSE k \in Randoms : \A l \in Randoms : k[1] * l[2] <= l[1] * k[2]

IssuedDtos == [activationToken : IssuedTokens, activationCode : Codes]

NextSession ==
    \/ \E registerDto \in RegisterDtos \cup IncompleteDtos :
           RegisterBegin(FirstSlot, registerDto)
    \/ RegisterFindPhone(FirstSlot)
    \/ \E salt \in Salts, mailSent \in BOOLEAN :
           RegisterSend(FirstSlot, salt, FirstRandom, mailSent)
    \/ \E activationDto \in IssuedDtos : ActivateBegin(FirstSlot, activationDto)
    \/ ActivateCreate(FirstSlot)
    \/ \E loginDto \in LoginDtos : LoginRequest(FirstSlot, loginDto)
    \/ GetUsersRequest(FirstSlot)
    \/ \E op \in GuardedOps, credentials \in Credentials :
           GuardedRequest(FirstSlot, op, credentials)
    \/ Respond(FirstSlot)
    \/ Tick

SpecSession == Init /\ [][NextSession]_vars

(***************************************************************************)
(* SpecCode: createActivationToken alone, called with a pending user per   *)
(* email and every value of Math.random() on a grid over [0, 1).           *)
(***************************************************************************)
FineRandoms == {<<n, RandomGrid>> : n \in 0..(RandomGrid - 1)}

PendingUsers ==
    {[name |-> d.name, email |-> d.email,
      password |-> bcryptHash(d.password, SaltRounds, salt),
      phone_number |-> d.phone_number] :
        d \in {CHOOSE e \in RegisterDtos : ~MissingField(e) /\ e.email = m : m \in Emails},
        salt \in Salts}

CreateActivationTokenCall(r, user, random) ==
    /\ ~Pending
    /\ r = FreeSlot
    /\ req' = [req EXCEPT ![r] =
           [Idle EXCEPT !.op = "createActivationToken", !.pc = "done",
                        !.dto = [user |-> user, random |-> random],
                        !.result = Returned(createActivationToken(user, random, clock))]]
    /\ UNCHANGED <<users, clock, issued, carrier, activated, listed>>

NextCode ==
    \/ /\ ~Pending
       /\ \E user \in PendingUsers, random \in FineRandoms :
              CreateActivationTokenCall(FirstSlot, user, random)
    \/ Respond(FirstSlot)

SpecCode == Init /\ [][NextCode]_vars

(***************************************************************************)
(* The failure kinds of the design, read off a request's result.           *)
(***************************************************************************)
ErrorKind(result) ==
    IF result = undefined \/ result.kind # "raised" THEN "none"
    ELSE IF result = JsonWebTokenError THEN "TokenInvalid"
    ELSE IF result = TokenExpiredError THEN "TokenExpired"
    ELSE IF result = BadRequestException("Invalid activation code") THEN "CodeMismatch"
    ELSE IF result = BadRequestException("Email already exist") THEN "DuplicateEmail"
    ELSE IF result = BadRequestException("User already exist with this email")
    THEN "DuplicateEmail"
    ELSE IF result = BadRequestException("Phone number already exist")
    THEN "DuplicatePhone"
    ELSE IF result = BadRequestException("Please fill the all fields")
    THEN "InvalidInput"
    ELSE IF result = Unauthenticated THEN "Unauthenticated"
    ELSE IF result = MailerError THEN "DependencyUnavailable"
    ELSE "Other"

Done(r, op) == req[r].op = op /\ req[r].pc = "done"

\* the request in slot r has just been entered by this step
Entered(r, op) == req[r].pc = "idle" /\ req'[r].op = op

EmailTaken(email) == \E u \in users : u.email = email
PhoneTaken(phone_number) == \E u \in users : u.phone_number = phone_number

\* a token some registration returned, presented before its expiry with the
\* code that was signed into it
Redeemable(activationDto, now) ==
    /\ activationDto.activationToken \in IssuedTokens
    /\ now < activationDto.activationToken.payload.iat + ActivationTTL
    /\ activationDto.activationCode =
           activationDto.activationToken.payload.claims.activationCode

PendingUserOf(activationDto) == activationDto.activationToken.payload.claims.user

\* the identity a pending user becomes
IsIdentityOf(u, pendingUser) ==
    /\ u.name = pendingUser.name
    /\ u.email = pendingUser.email
    /\ u.password = pendingUser.password
    /\ u.phone_number = pendingUser.phone_number

(***************************************************************************)
(* C1.  Under any interleaving of register and activateUser requests, no   *)
(* two persisted identities share an email and no two share a              *)
(* phone_number.                                                           *)
(***************************************************************************)
C1_UniqueEmailAndPhone ==
    \A u, v \in users :
        u # v => u.email # v.email /\ u.phone_number # v.phone_number

\* two activations raced past the lookup and the second create was refused
C1_Witness ==
    /\ users # {}
    /\ \E r \in Slots :
         /\ Done(r, "activateUser")
         /\ req[r].result = PrismaUniqueConstraintError("email")

(***************************************************************************)
(* C2.  activateUser with a valid, unexpired token and the matching code,  *)
(* while an identity with the ticket's email exists, raises DuplicateEmail *)
(* and creates nothing: its caller gets no returned value.                 *)
(***************************************************************************)
C2_DuplicateEmailIsRaised ==
    [][\A r \in Slots :
          ( /\ Entered(r, "activateUser")
            /\ Redeemable(req'[r].dto, clock)
            /\ EmailTaken(PendingUserOf(req'[r].dto).email) )
          => /\ req'[r].pc = "done"
             /\ req'[r].result.kind = "raised"
             /\ ErrorKind(req'[r].result) = "DuplicateEmail"
             /\ users' = users]_vars

(***************************************************************************)
(* C3.  An identity is created only by an activateUser whose token was     *)
(* signed by the service, is younger than its 5 minutes, and comes with    *)
(* the code signed into it.  A token that is not the service's fails with  *)
(* TokenInvalid, an expired one with TokenExpired, a wrong code with       *)
(* CodeMismatch, and none of the three touches the user store.             *)
(***************************************************************************)
C3_ActivationNeedsValidTicket ==
    [][ /\ users' # users =>
             \E r \in Slots :
                 /\ req[r].op = "activateUser"
                 /\ req[r].pc = "create"
                 /\ Redeemable(req[r].dto, clock)
                 /\ \E u \in users' :
                        /\ users' = users \cup {u}
                        /\ IsIdentityOf(u, PendingUserOf(req[r].dto))
        /\ \A r \in Slots :
             Entered(r, "activateUser") =>
                 LET dto == req'[r].dto
                     token == dto.activationToken
                 IN  IF token \notin IssuedTokens
                     THEN /\ req'[r].pc = "done"
                          /\ ErrorKind(req'[r].result) = "TokenInvalid"
                          /\ users' = users
                     ELSE IF clock >= token.payload.iat + ActivationTTL
                     THEN /\ req'[r].pc = "done"
                          /\ ErrorKind(req'[r].result) = "TokenExpired"
                          /\ users' = users
                     ELSE IF dto.activationCode # token.payload.claims.activationCode
                     THEN /\ req'[r].pc = "done"
                          /\ ErrorKind(req'[r].result) = "CodeMismatch"
                          /\ users' = users
                     ELSE ErrorKind(req'[r].result) \notin
                              {"TokenInvalid", "TokenExpired", "CodeMismatch"}
      ]_vars

\* an identity was created off a ticket after the clock had moved
C3_Witness ==
    /\ clock > 0
    /\ \E r \in Slots :
         /\ Done(r, "activateUser")
         /\ req[r].result.kind = "returned"
         /\ req[r].result.value.user \in users

(***************************************************************************)
(* C4.  activateUser with a valid ticket and the matching code, whose      *)
(* phone_number is taken or whose create is refused by the store's unique  *)
(* index, fails with DuplicatePhone or DuplicateEmail and with no other    *)
(* kind.                                                                   *)
(***************************************************************************)
C4_WriteConflictIsDuplicate ==
    \A r \in Slots :
        ( /\ Done(r, "activateUser")
          /\ Redeemable(req[r].dto, clock)
          /\ req[r].result.kind = "raised" )
        => ErrorKind(req[r].result) \in {"DuplicateEmail", "DuplicatePhone"}

(***************************************************************************)
(* C5.  The code register hands to the notifier is the code signed into    *)
(* the token it returns: within the token's lifetime activateUser lets     *)
(* the mailed code past its code check and turns every other code away.    *)
(***************************************************************************)
C5_MailedCodeRedeems ==
    [][ /\ \A i \in issued' :
               i.mail.activationCode = i.activation_token.payload.claims.activationCode
        /\ \A r \in Slots, i \in issued :
             ( /\ Entered(r, "activateUser")
               /\ req'[r].dto.activationToken = i.activation_token
               /\ clock < i.activation_token.payload.iat + ActivationTTL )
             => IF req'[r].dto.activationCode = i.mail.activationCode
                THEN ErrorKind(req'[r].result) \notin
                         {"CodeMismatch", "TokenInvalid", "TokenExpired"}
                ELSE /\ req'[r].pc = "done"
                     /\ ErrorKind(req'[r].result) = "CodeMismatch"
      ]_vars

\* the mailed code was presented with the returned token and an identity made
C5_Witness ==
    \E r \in Slots, i \in issued :
        /\ Done(r, "activateUser")
        /\ req[r].dto.activationToken = i.activation_token
        /\ req[r].dto.activationCode = i.mail.activationCode
        /\ req[r].result.kind = "returned"
        /\ \E u \in users : req[r].result.value.user = u /\ u.email = i.mail.email

(***************************************************************************)
(* C6.  register fails with DuplicateEmail when the email is persisted     *)
(* and with DuplicatePhone when the email is free and the phone_number is  *)
(* persisted; in both cases it returns no activation token and the         *)
(* notifier is not called.                                                 *)
(***************************************************************************)
C6_RegisterRejectsDuplicates ==
    [][\A r \in Slots :
          \* the email lookup, the first thing register does
          /\ ( /\ Entered(r, "register")
               /\ ~MissingField(req'[r].dto)
               /\ EmailTaken(req'[r].dto.email) )
             => /\ req'[r].pc = "done"
                /\ req'[r].result.kind = "raised"
                /\ ErrorKind(req'[r].result) = "DuplicateEmail"
          \* the phone lookup, reached only with the email free
          /\ ( /\ req[r].op = "register"
               /\ req[r].pc = "findPhone"
               /\ req'[r] # req[r]
               /\ PhoneTaken(req[r].dto.phone_number) )
             => /\ req'[r].pc = "done"
                /\ req'[r].result.kind = "raised"
                /\ ErrorKind(req'[r].result) = "DuplicatePhone"
          \* neither failure leaves a token or a mail behind
          /\ ( /\ req'[r] # req[r]
               /\ req'[r].op = "register"
               /\ ErrorKind(req'[r].result) \in {"DuplicateEmail", "DuplicatePhone"} )
             => /\ ~req'[r].notified
                /\ issued' = issued
      ]_vars

\* the email was free and the phone_number taken
C6_Witness ==
    \E r \in Slots :
        /\ Done(r, "register")
        /\ ~EmailTaken(req[r].dto.email)
        /\ PhoneTaken(req[r].dto.phone_number)
        /\ ErrorKind(req[r].result) = "DuplicatePhone"


(***************************************************************************)
(* Login claims.  The password an identity registered with is the one its  *)
(* stored hash was computed from.                                          *)
(***************************************************************************)
RegisteredPassword(u) == u.password.digest[3]

KnownEmail(email) == \E u \in users : u.email = email

RightPassword(loginDto) ==
    \E u \in users :
        u.email = loginDto.email /\ RegisteredPassword(u) = loginDto.password

InvalidCredentials ==
    [user |-> null, accessToken |-> null, refreshToken |-> null,
     error |-> [message |-> "Invalid email or password"]]

(***************************************************************************)
(* C7.  Login with an unknown email and Login with a known email and a     *)
(* wrong password return one and the same failure result, with user,       *)
(* accessToken and refreshToken null.                                      *)
(***************************************************************************)
C7_UniformLoginFailure ==
    \A r \in Slots :
        ( Done(r, "Login") /\ ~RightPassword(req[r].dto) )
        => req[r].result = Returned(InvalidCredentials)

\* a known email with a wrong password was turned away
C7_Witness ==
    \E r \in Slots :
        /\ Done(r, "Login")
        /\ KnownEmail(req[r].dto.email)
        /\ ~RightPassword(req[r].dto)
        /\ req[r].result.value.user = null

(***************************************************************************)
(* C8.  Login returns an access and a refresh token exactly when an        *)
(* identity has the email and the password is the one it registered with,  *)
(* and then the result is the token issuer's for that identity.            *)
(***************************************************************************)
C8_TokensIffCredentialsMatch ==
    \A r \in Slots :
        Done(r, "Login") =>
            LET out == req[r].result.value
            IN  /\ (out.accessToken # null \/ out.refreshToken # null)
                       <=> RightPassword(req[r].dto)
                /\ RightPassword(req[r].dto) =>
                       \E u \in users :
                           /\ u.email = req[r].dto.email
                           /\ out = sendToken(u, clock)

\* an activated identity logged in with its password, a second identity exists
C8_Witness ==
    \E r \in Slots :
        /\ Done(r, "Login")
        /\ RightPassword(req[r].dto)
        /\ req[r].result.value.accessToken # null
        /\ Cardinality(users) = 2

(***************************************************************************)
(* C9.  register, Login, getUsers, getLoggedInUser and logOutUser leave    *)
(* the persisted identities as they are.  An identity appears only by the  *)
(* create of an activateUser that was given a token of the service within  *)
(* its lifetime and the code signed into it, and it is the pending user    *)
(* that token carries.                                                     *)
(***************************************************************************)
ReadOnlyOps == {"register", "Login", "getUsers", "getLoggedInUser", "logOutUser"}

C9_OnlyActivationCreates ==
    [][ /\ \A r \in Slots :
               (req'[r] # req[r] /\ (req[r].op \in ReadOnlyOps \/ req'[r].op \in ReadOnlyOps))
               => users' = users
        /\ users' # users =>
               /\ users \subseteq users'
               /\ Cardinality(users') = Cardinality(users) + 1
               /\ \E r \in Slots :
                      /\ req[r].op = "activateUser"
                      /\ req'[r].op = "activateUser"
                      /\ req'[r].pc = "done"
                      /\ Redeemable(req[r].dto, clock)
                      /\ \A u \in users' \ users :
                             IsIdentityOf(u, PendingUserOf(req[r].dto))
      ]_vars

\* every kind of request has been served and one identity exists
C9_Witness ==
    /\ Cardinality(users) = 1
    /\ carrier # NoCredentials
    /\ \E r \in Slots : Done(r, "logOutUser") /\ req[r].result.kind = "returned"

(***************************************************************************)
(* C10.  After Logout on an authenticated request, the request carries no  *)
(* identity, no access token and no refresh token: what getLoggedInUser    *)
(* reads off it is empty.                                                  *)
(***************************************************************************)
Empty(value) == value = null \/ value = undefined

C10_LogoutClearsContext ==
    \A r \in Slots :
        ( Done(r, "logOutUser") /\ req[r].result.kind = "returned" )
        => LET seen == getLoggedInUser(req[r].ctx)
           IN  Empty(seen.user) /\ Empty(seen.accessToken) /\ Empty(seen.refreshToken)

(***************************************************************************)
(* C11.  When sendMail rejects while register is sending the activation    *)
(* code, register fails with DependencyUnavailable: its caller gets no     *)
(* activation token, no token is handed out, and no identity is persisted. *)
(***************************************************************************)
C11_MailFailureAbortsRegister ==
    [][\A r \in Slots :
          ( /\ req[r].op = "register"
            /\ req[r].pc = "hash"
            /\ req'[r].pc = "done"
            /\ ~req'[r].delivered )
          => /\ req'[r].notified
             /\ req'[r].result.kind = "raised"
             /\ ErrorKind(req'[r].result) = "DependencyUnavailable"
             /\ issued' = issued
             /\ users' = users]_vars

\* the mail of a registration failed while another request was in flight
C11_Witness ==
    \E r \in Slots :
        /\ Done(r, "register")
        /\ req[r].notified
        /\ ~req[r].delivered
        /\ req[r].result = MailerError
        /\ \E s \in Slots : Busy(s)


(***************************************************************************)
(* C12.  A register request whose name, email or password is empty or      *)
(* absent is rejected with InvalidInput at once: also when its email or    *)
(* phone_number is taken, no lookup answers it, nothing is hashed, no      *)
(* token is made and the notifier is not called.                           *)
(***************************************************************************)
C12_MissingFieldRejectedFirst ==
    [][\A r \in Slots :
          ( Entered(r, "register") /\ MissingField(req'[r].dto) )
          => /\ req'[r].pc = "done"
             /\ req'[r].result.kind = "raised"
             /\ ErrorKind(req'[r].result) = "InvalidInput"
             /\ ~req'[r].queried
             /\ ~req'[r].notified
             /\ issued' = issued
             /\ users' = users]_vars

\* the name was absent and the email belonged to a persisted identity
C12_Witness ==
    \E r \in Slots :
        /\ Done(r, "register")
        /\ "name" \notin DOMAIN req[r].dto
        /\ EmailTaken(req[r].dto.email)
        /\ ErrorKind(req[r].result) = "InvalidInput"
        /\ ~req[r].queried


(***************************************************************************)
(* C13.  A guarded request whose access token is not a token, or does not  *)
(* carry the service's signature over its payload, is refused with         *)
(* Unauthenticated whatever refresh token comes with it: the handler does  *)
(* not run, and no access token is minted from the refresh token.          *)
(***************************************************************************)
ServiceSigned(token, secret) ==
    IsWellFormed(token) /\ token.signature = Mac(secret, token.payload)

C13_TamperedAccessIsRefused ==
    \A r \in Slots :
        ( /\ req[r].op \in GuardedOps
          /\ req[r].pc = "done"
          /\ req[r].dto.accessToken # undefined
          /\ ~ServiceSigned(req[r].dto.accessToken, ACCESS_TOKEN_SECRET) )
        => /\ req[r].result = Unauthenticated
           /\ req[r].ctx = undefined
           /\ req[r].local = undefined

\* an expired access token altered to look unexpired, with a refresh token
\* that still verifies
C13_Witness ==
    \E r \in Slots :
        /\ Done(r, "getLoggedInUser")
        /\ req[r].dto.accessToken # undefined
        /\ IsWellFormed(req[r].dto.accessToken)
        /\ ~ServiceSigned(req[r].dto.accessToken, ACCESS_TOKEN_SECRET)
        /\ clock >= req[r].dto.accessToken.payload.iat + AccessTTL
        /\ req[r].dto.refreshToken # undefined
        /\ jwtVerify(req[r].dto.refreshToken, REFRESH_TOKEN_SECRET, clock).kind = "ok"
        /\ req[r].result = Unauthenticated


(***************************************************************************)
(* C14.  A guarded request that presents the pair a login issued at time   *)
(* t is accepted as it is while less than the access lifetime has passed   *)
(* since t; from then until the refresh lifetime has passed it is accepted *)
(* with a new access token for the same identity minted and attached; from *)
(* then on it is refused with Unauthenticated.                             *)
(***************************************************************************)
LoginPair(credentials) ==
    /\ credentials.accessToken # undefined
    /\ credentials.refreshToken # undefined
    /\ ServiceSigned(credentials.accessToken, ACCESS_TOKEN_SECRET)
    /\ ServiceSigned(credentials.refreshToken, REFRESH_TOKEN_SECRET)
    /\ \E u \in users :
           /\ credentials.accessToken = sendToken(u, credentials.accessToken.payload.iat).accessToken
           /\ credentials.refreshToken = sendToken(u, credentials.accessToken.payload.iat).refreshToken

C14_GuardFollowsTokenLifetimes ==
    \A r \in Slots :
        ( /\ req[r].op \in GuardedOps
          /\ req[r].pc = "done"
          /\ LoginPair(req[r].dto) )
        => LET issuedAt == req[r].dto.accessToken.payload.iat
               id == req[r].dto.accessToken.payload.claims.id
           IN  IF clock < issuedAt + AccessTTL
               THEN /\ req[r].result.kind = "returned"
                    /\ req[r].local = undefined
                    /\ req[r].ctx.accessToken = req[r].dto.accessToken
               ELSE IF clock < issuedAt + RefreshTTL
               THEN /\ req[r].result.kind = "returned"
                    /\ req[r].local # undefined
                    /\ req[r].local # req[r].dto.accessToken
                    /\ req[r].local.payload.claims.id = id
                    /\ jwtVerify(req[r].local, ACCESS_TOKEN_SECRET, clock).kind = "ok"
                    /\ req[r].ctx.accessToken = req[r].local
               ELSE /\ req[r].result = Unauthenticated
                    /\ req[r].local = undefined

\* the access lifetime of a login's pair had passed, the refresh lifetime
\* had not, and the request went through with a new access token
C14_Witness ==
    \E r \in Slots :
        /\ Done(r, "getLoggedInUser")
        /\ LoginPair(req[r].dto)
        /\ clock >= req[r].dto.accessToken.payload.iat + AccessTTL
        /\ clock < req[r].dto.accessToken.payload.iat + RefreshTTL
        /\ req[r].result.kind = "returned"
        /\ req[r].local # undefined


(***************************************************************************)
(* C15.  A registration that was not activated does not reserve its        *)
(* email.  register fails with DuplicateEmail exactly when an identity     *)
(* with the email is persisted, however many registrations for it are      *)
(* pending; an activateUser with a redeemable ticket fails with            *)
(* DuplicateEmail when an activation for the ticket's email has completed  *)
(* before it, and not otherwise.                                           *)
(***************************************************************************)
C15_PendingDoesNotReserveEmail ==
    [][\A r \in Slots :
          /\ ( Entered(r, "register") /\ ~MissingField(req'[r].dto) )
             => ( ErrorKind(req'[r].result) = "DuplicateEmail"
                    <=> EmailTaken(req'[r].dto.email) )
          /\ ( Entered(r, "activateUser") /\ Redeemable(req'[r].dto, clock) )
             => IF EmailTaken(PendingUserOf(req'[r].dto).email)
                THEN /\ req'[r].pc = "done"
                     /\ req'[r].result.kind = "raised"
                     /\ ErrorKind(req'[r].result) = "DuplicateEmail"
                ELSE ErrorKind(req'[r].result) # "DuplicateEmail"
      ]_vars


(***************************************************************************)
(* C16.  Of the identities ever persisted, at most one was made from any   *)
(* one activation token, however often and however interleaved the token   *)
(* is presented to activateUser with its code.  (Identities are never      *)
(* removed, so those persisted are those ever created.)                    *)
(***************************************************************************)
CreatedFrom(token) ==
    {u \in users : IsIdentityOf(u, token.payload.claims.user)}

C16_TokenRedeemedAtMostOnce ==
    \A token \in IssuedTokens : Cardinality(CreatedFrom(token)) <= 1

\* the one token there is was presented twice at once with its code: one
\* call made the identity, the other passed the lookup and was refused
C16_Witness ==
    /\ Cardinality(IssuedTokens) = 1
    /\ \E r \in Slots :
         /\ Done(r, "activateUser")
         /\ Redeemable(req[r].dto, clock)
         /\ req[r].result.kind = "raised"
         /\ Cardinality(CreatedFrom(req[r].dto.activationToken)) = 1


(***************************************************************************)
(* C17.  activateUser verifies the token, then compares the code, then     *)
(* looks the email up, then creates.  A token that is not the service's    *)
(* fails with TokenInvalid and an expired one with TokenExpired whatever   *)
(* code comes with it; a wrong code fails with CodeMismatch only on a      *)
(* verified token; and the user store is queried, and written, only by a   *)
(* call whose token verified and whose code matched.                       *)
(***************************************************************************)
Verified(token, now) ==
    ServiceSigned(token, JWT_SECRET) /\ now < token.payload.exp

CodeMatches(activationDto) ==
    activationDto.activationCode =
        activationDto.activationToken.payload.claims.activationCode

C17_ActivationChecksInOrder ==
    [][ /\ \A r \in Slots :
             Entered(r, "activateUser") =>
                 LET dto == req'[r].dto
                     token == dto.activationToken
                 IN  IF ~ServiceSigned(token, JWT_SECRET)
                     THEN /\ req'[r].pc = "done"
                          /\ ErrorKind(req'[r].result) = "TokenInvalid"
                          /\ ~req'[r].queried
                     ELSE IF ~Verified(token, clock)
                     THEN /\ req'[r].pc = "done"
                          /\ ErrorKind(req'[r].result) = "TokenExpired"
                          /\ ~req'[r].queried
                     ELSE IF ~CodeMatches(dto)
                     THEN /\ req'[r].pc = "done"
                          /\ ErrorKind(req'[r].result) = "CodeMismatch"
                          /\ ~req'[r].queried
                     ELSE /\ req'[r].queried
                          /\ ErrorKind(req'[r].result) \notin
                                 {"TokenInvalid", "TokenExpired", "CodeMismatch"}
        /\ \A r \in Slots :
             (req'[r].op = "activateUser" /\ req'[r].queried)
             => Verified(req'[r].dto.activationToken, clock) /\ CodeMatches(req'[r].dto)
        /\ users' # users =>
             \E r \in Slots :
                 /\ req[r].op = "activateUser"
                 /\ req[r].pc = "create"
                 /\ req[r].queried
                 /\ req'[r].pc = "done"
      ]_vars

\* an expired token came with a wrong code while identities were persisted
C17_Witness ==
    \E r \in Slots :
        /\ Done(r, "activateUser")
        /\ req[r].dto.activationToken \in IssuedTokens
        /\ clock >= req[r].dto.activationToken.payload.exp
        /\ ~CodeMatches(req[r].dto)
        /\ ErrorKind(req[r].result) = "TokenExpired"
        /\ ~req[r].queried
        /\ users # {}


(***************************************************************************)
(* C18.  getUsers answers with exactly the identities that successful      *)
(* activations have created so far, and a second call answers what the     *)
(* call before it answered when no activation succeeded in between.        *)
(***************************************************************************)
C18_GetUsersIsPureRead ==
    \A r \in Slots :
        Done(r, "getUsers") =>
            /\ req[r].result = Returned(activated)
            /\ users = activated
            /\ ( listed # undefined /\ listed.activations = Cardinality(activated) )
                   => req[r].result.value = listed.users

\* two identities were listed, and listed again with no activation between
C18_Witness ==
    \E r \in Slots :
        /\ Done(r, "getUsers")
        /\ listed # undefined
        /\ listed.activations = Cardinality(activated)
        /\ Cardinality(req[r].result.value) = 2


(***************************************************************************)
(* C19.  The activation code createActivationToken returns, and signs into *)
(* the token, is the decimal string of a whole number from 1000 to 9999,   *)
(* four characters long, whatever Math.random() returned in [0, 1).        *)
(***************************************************************************)
FourDigitCodes == {ToString(v) : v \in 1000..9999}

C19_CodeIsFourDigits ==
    \A r \in Slots :
        Done(r, "createActivationToken") =>
            LET out == req[r].result.value
            IN  /\ out.activationCode \in FourDigitCodes
                /\ Len(out.activationCode) = 4
                /\ out.token.payload.claims.activationCode = out.activationCode

\* the largest value on the grid gave the largest code
C19_Witness ==
    \E r \in Slots :
        /\ Done(r, "createActivationToken")
        /\ req[r].dto.random[1] = RandomGrid - 1
        /\ req[r].result.value.activationCode = "9999"


====
